---- MODULE Spec2Model ----
(***************************************************************************)
(* convertRawJavaScriptAst(ast, builder): the conversion of a parsed        *)
(* JavaScript syntax tree into the compiler's IR, src/compiler/util/        *)
(* convertRawJavaScriptAst.js.                                              *)
(*                                                                          *)
(* Values.  A JavaScript object is a record; a JavaScript array is the      *)
(* record Arr(s) around the sequence s of its elements; null and undefined  *)
(* are the records Null and Undefined.  A source node carries its ESTree    *)
(* fields; a node made by the builder carries the extra field ir.           *)
(*                                                                          *)
(* convert(node) is computed as the code computes it and yields             *)
(*   res     the value returned (Null is the rejection sentinel),           *)
(*   thrown  TRUE when the call ended in a TypeError instead of returning,  *)
(*   node    the argument as the call leaves it (arrays are written in      *)
(*           place by the code, so the argument can change),                *)
(*   log     the convert calls entered and the builder calls made, in order.*)
(***************************************************************************)
EXTENDS Integers, Sequences, FiniteSets, TLC

VARIABLES src, ast, pc, result, thrown, log

state == <<src, ast, pc, result, thrown, log>>

-----------------------------------------------------------------------------
(* JavaScript values *)

Null == [type |-> "<null>"]

Undefined == [type |-> "<undefined>"]

Arr(s) == [type |-> "<array>", items |-> s]

StrArr(s) == [type |-> "<array>", strs |-> s]

isArray(v) == v.type = "<array>"

Str(s) == [str |-> s]

RegExp(pattern, flags) == [source |-> pattern, flags |-> flags]

has(v, f) == f \in DOMAIN v /\ v[f] # Null /\ v[f] # Undefined

put(v, f, x) == [g \in DOMAIN v \cup {f} |-> IF g = f THEN x ELSE v[g]]

Ev(op, arg) == [op |-> op, arg |-> arg]

-----------------------------------------------------------------------------
(* The builder: one construction operation per IR kind *)

arrayExpression(elements) ==
    [ir |-> TRUE, type |-> "ArrayExpression", elements |-> elements]

assignment(left, right, operator) ==
    [ir |-> TRUE, type |-> "Assignment", left |-> left, right |-> right,
     operator |-> operator]

binaryExpression(left, operator, right) ==
    [ir |-> TRUE, type |-> "BinaryExpression", left |-> left,
     operator |-> operator, right |-> right]

functionCall(callee, args) ==
    [ir |-> TRUE, type |-> "FunctionCall", callee |-> callee, args |-> args]

conditionalExpression(test, consequent, alternate) ==
    [ir |-> TRUE, type |-> "ConditionalExpression", test |-> test,
     consequent |-> consequent, alternate |-> alternate]

functionDeclaration(name, params, body) ==
    [ir |-> TRUE, type |-> "FunctionDeclaration", fname |-> name,
     params |-> params, body |-> body]

identifier(name) == [ir |-> TRUE, type |-> "Identifier", name |-> name]

literal(value) == [ir |-> TRUE, type |-> "Literal", value |-> value]

templateLiteral(quasis, expressions) ==
    [ir |-> TRUE, type |-> "TemplateLiteral", quasis |-> quasis,
     expressions |-> expressions]

logicalExpression(left, operator, right) ==
    [ir |-> TRUE, type |-> "LogicalExpression", left |-> left,
     operator |-> operator, right |-> right]

memberExpression(object, property, computed) ==
    [ir |-> TRUE, type |-> "MemberExpression", object |-> object,
     property |-> property, computed |-> computed]

newExpression(callee, args) ==
    [ir |-> TRUE, type |-> "NewExpression", callee |-> callee, args |-> args]

containerNode == [ir |-> TRUE, type |-> "ContainerNode", body |-> <<>>]

appendChild(container, child) ==
    [container EXCEPT !.body = Append(@, child)]

objectExpression(properties) ==
    [ir |-> TRUE, type |-> "ObjectExpression", properties |-> properties]

property(key, value, computed) ==
    [ir |-> TRUE, type |-> "Property", key |-> key, value |-> value,
     computed |-> computed]

returnStatement(argument) ==
    [ir |-> TRUE, type |-> "Return", argument |-> argument]

thisExpression == [ir |-> TRUE, type |-> "ThisExpression"]

unaryExpression(argument, operator, prefix) ==
    [ir |-> TRUE, type |-> "UnaryExpression", argument |-> argument,
     operator |-> operator, prefix |-> prefix]

updateExpression(argument, operator, prefix) ==
    [ir |-> TRUE, type |-> "UpdateExpression", argument |-> argument,
     operator |-> operator, prefix |-> prefix]

variableDeclarator(id, init) ==
    [ir |-> TRUE, type |-> "VariableDeclarator", id |-> id, init |-> init]

vars(declarations, kind) ==
    [ir |-> TRUE, type |-> "Vars", declarations |-> declarations,
     kind |-> kind]

ifStatement(test, body) ==
    [ir |-> TRUE, type |-> "If", test |-> test, body |-> body]

elseIfStatement(test, body) ==
    [ir |-> TRUE, type |-> "ElseIf", test |-> test, body |-> body]

elseStatement(body) == [ir |-> TRUE, type |-> "Else", body |-> body]

forStatement(init, test, update, body) ==
    [ir |-> TRUE, type |-> "ForStatement", init |-> init, test |-> test,
     update |-> update, body |-> body]

whileStatement(test, body) ==
    [ir |-> TRUE, type |-> "WhileStatement", test |-> test, body |-> body]

-----------------------------------------------------------------------------
(* Outcomes of a call of convert *)

Ret(res, node, l) ==
    [res |-> res, thrown |-> FALSE, node |-> node, log |-> l]

Throw(node, l) ==
    [res |-> Null, thrown |-> TRUE, node |-> node, log |-> l]

RECURSIVE convert(_)
RECURSIVE convertArray(_, _, _)
RECURSIVE convertChildren(_, _, _)
RECURSIVE convertAlternates(_, _, _)
RECURSIVE convertProgramBody(_, _, _, _)

arrayNeverStops(converted) == FALSE

(* `converted == null` of the array loop, line 7 *)
arrayStop(converted) == converted = Null

(* lines 3-13: the elements of an array are converted in place, left to    *)
(* right, up to the first one that converts to null.                        *)
convertArray(nodes, i, l) ==
    IF i > Len(nodes.items) THEN Ret(nodes, nodes, l)
    ELSE LET c == convert(nodes.items[i])
             kept == [nodes EXCEPT !.items[i] = c.node]
         IN  IF c.thrown THEN Throw(kept, l \o c.log)
             ELSE IF arrayStop(c.res) THEN Ret(Null, kept, l \o c.log)
             ELSE convertArray([nodes EXCEPT !.items[i] = c.res],
                               i + 1, l \o c.log)

(* The children named by fields, converted in order.  With lazy, the first *)
(* child that converts to null ends it (`if (!left) return null` before    *)
(* the next convert); without, every child is converted before any is      *)
(* tested (IfStatement, ForStatement, WhileStatement).                      *)
convertChildren(node, fields, lazy) ==
    IF fields = <<>>
    THEN [node |-> node, vals |-> <<>>, log |-> <<>>, thrown |-> FALSE,
          rejected |-> FALSE]
    ELSE LET f == Head(fields)
             c == convert(node[f])
             node1 == [node EXCEPT ![f] = c.node]
         IN  IF c.thrown
             THEN [node |-> node1, vals |-> <<>>, log |-> c.log,
                   thrown |-> TRUE, rejected |-> FALSE]
             ELSE IF lazy /\ c.res = Null
             THEN [node |-> node1, vals |-> <<>>, log |-> c.log,
                   thrown |-> FALSE, rejected |-> TRUE]
             ELSE LET rest == convertChildren(node1, Tail(fields), lazy)
                  IN  [node |-> rest.node, vals |-> <<c.res>> \o rest.vals,
                       log |-> c.log \o rest.log, thrown |-> rest.thrown,
                       rejected |-> rest.rejected \/ c.res = Null]

(* The end of a case: the throw or the null of the children, or else the   *)
(* node the builder operation op makes.                                     *)
built(c, op, arg) == Ret(arg, c.node, c.log \o <<Ev(op, "")>>)

failed(c) == IF c.thrown THEN Throw(c.node, c.log)
             ELSE Ret(Null, c.node, c.log)

(* The two-operand cases: lines 23-35, 36-48, 157-169 *)
convertAssignmentExpression(node) ==
    LET c == convertChildren(node, <<"left", "right">>, TRUE)
    IN  IF c.thrown \/ c.rejected THEN failed(c)
        ELSE built(c, "assignment",
                   assignment(c.vals[1], c.vals[2], node.operator))

convertBinaryExpression(node) ==
    LET c == convertChildren(node, <<"left", "right">>, TRUE)
    IN  IF c.thrown \/ c.rejected THEN failed(c)
        ELSE built(c, "binaryExpression",
                   binaryExpression(c.vals[1], node.operator, c.vals[2]))

convertLogicalExpression(node) ==
    LET c == convertChildren(node, <<"left", "right">>, TRUE)
    IN  IF c.thrown \/ c.rejected THEN failed(c)
        ELSE built(c, "logicalExpression",
                   logicalExpression(c.vals[1], node.operator, c.vals[2]))

(* lines 16-22 *)
convertArrayExpression(node) ==
    LET c == convertChildren(node, <<"elements">>, TRUE)
    IN  IF c.thrown \/ c.rejected THEN failed(c)
        ELSE built(c, "arrayExpression", arrayExpression(c.vals[1]))

(* lines 49-56: the converted statement list itself, no builder call *)
convertBlockStatement(node) ==
    LET c == convertChildren(node, <<"body">>, TRUE)
    IN  IF c.thrown \/ c.rejected THEN failed(c)
        ELSE Ret(c.vals[1], c.node, c.log)

(* lines 57-70 and 187-200 *)
convertCallExpression(node) ==
    LET c == convertChildren(node, <<"callee", "arguments">>, TRUE)
    IN  IF c.thrown \/ c.rejected THEN failed(c)
        ELSE built(c, "functionCall", functionCall(c.vals[1], c.vals[2]))

convertNewExpression(node) ==
    LET c == convertChildren(node, <<"callee", "arguments">>, TRUE)
    IN  IF c.thrown \/ c.rejected THEN failed(c)
        ELSE built(c, "newExpression", newExpression(c.vals[1], c.vals[2]))

(* lines 71-95 *)
convertConditionalExpression(node) ==
    LET c == convertChildren(node, <<"test", "consequent", "alternate">>,
                             TRUE)
    IN  IF c.thrown \/ c.rejected THEN failed(c)
        ELSE built(c, "conditionalExpression",
                   conditionalExpression(c.vals[1], c.vals[2], c.vals[3]))

(* lines 96-98 *)
convertExpressionStatement(node) ==
    LET c == convertChildren(node, <<"expression">>, TRUE)
    IN  IF c.thrown \/ c.rejected THEN failed(c)
        ELSE Ret(c.vals[1], c.node, c.log)

(* lines 99-121: the name is converted only when the function has an id *)
convertFunction(node) ==
    LET named == has(node, "id")
        c == convertChildren(node,
                 IF named THEN <<"id", "params", "body">>
                          ELSE <<"params", "body">>, TRUE)
        k == IF named THEN 1 ELSE 0
    IN  IF c.thrown \/ c.rejected THEN failed(c)
        ELSE built(c, "functionDeclaration",
                   functionDeclaration(IF named THEN c.vals[1] ELSE Null,
                                       c.vals[k + 1], c.vals[k + 2]))

(* lines 122-124 *)
convertIdentifier(node) ==
    Ret(identifier(node.name), node, <<Ev("identifier", node.name)>>)

(* lines 125-138 *)
convertLiteral(node) ==
    LET literalValue == IF has(node, "regex")
                        THEN RegExp(node.regex.pattern, node.regex.flags)
                        ELSE node.value
    IN  Ret(literal(literalValue), node, <<Ev("literal", "")>>)

isNamedTag(tag) == "name" \in DOMAIN tag

(* `node.tag.name === "$nonstandard"`, line 140 *)
isNonstandardTag(tag) == "name" \in DOMAIN tag /\ tag.name = "$nonstandard"

(* lines 139-148 *)
convertTaggedTemplateExpression(node) ==
    IF isNonstandardTag(node.tag)
    THEN LET c == convert(node.quasi)
             node1 == [node EXCEPT !.quasi = c.node]
         IN  IF c.thrown THEN Throw(node1, c.log)
             ELSE IF c.res # Null
             THEN Ret(put(c.res, "nonstandard", TRUE), node1, c.log)
             ELSE Ret(Null, node1, c.log)
    ELSE Ret(Null, node, <<>>)

(* lines 149-156 *)
convertTemplateLiteral(node) ==
    LET quasis == StrArr([i \in 1..Len(node.quasis.items) |->
                             node.quasis.items[i].value.cooked])
        c == convertChildren(node, <<"expressions">>, TRUE)
    IN  IF c.thrown \/ c.rejected THEN failed(c)
        ELSE built(c, "templateLiteral", templateLiteral(quasis, c.vals[1]))

(* lines 170-186 *)
convertMemberExpression(node) ==
    LET c == convertChildren(node, <<"object", "property">>, TRUE)
    IN  IF c.thrown \/ c.rejected THEN failed(c)
        ELSE built(c, "memberExpression",
                   memberExpression(c.vals[1], c.vals[2], node.computed))

(* lines 206-215: the statements of a program appended to a container, up  *)
(* to the first one that converts to null.                                  *)
convertProgramBody(node, i, container, l) ==
    IF ~has(node, "body") THEN Throw(node, l)
    ELSE IF i > Len(node.body.items) THEN Ret(container, node, l)
    ELSE LET c == convert(node.body.items[i])
             node1 == [node EXCEPT !.body.items[i] = c.node]
         IN  IF c.thrown THEN Throw(node1, l \o c.log)
             ELSE IF c.res # Null
             THEN convertProgramBody(node1, i + 1,
                      appendChild(container, c.res),
                      l \o c.log \o <<Ev("appendChild", "")>>)
             ELSE Ret(Null, node1, l \o c.log)

neverSingleStatement(node) == FALSE

(* `node.body && node.body.length === 1`, line 202 *)
isSingleStatement(node) == has(node, "body") /\ Len(node.body.items) = 1

(* lines 201-216 *)
convertProgram(node) ==
    IF isSingleStatement(node)
    THEN LET c == convert(node.body.items[1])
         IN  [c EXCEPT !.node = [node EXCEPT !.body.items[1] = c.node]]
    ELSE convertProgramBody(node, 1, containerNode,
                            <<Ev("containerNode", "")>>)

(* lines 217-223 *)
convertObjectExpression(node) ==
    LET c == convertChildren(node, <<"properties">>, TRUE)
    IN  IF c.thrown \/ c.rejected THEN failed(c)
        ELSE built(c, "objectExpression", objectExpression(c.vals[1]))

isGetter(node) == node.kind = "get"

(* `node.kind === "get" || node.kind === "set"`, line 232 *)
isAccessor(node) == node.kind = "get" \/ node.kind = "set"

isIdentifierKey(computed, key) == key.type = "Identifier"

(* `!computed && key.type === "Identifier"`, line 236 *)
isPlainIdentifierKey(computed, key) == ~computed /\ key.type = "Identifier"

(* lines 224-248 *)
convertProperty(node) ==
    LET computed == node.computed = TRUE
        k == convert(node.key)
        node1 == [node EXCEPT !.key = k.node]
    IN  IF k.thrown THEN Throw(node1, k.log)
        ELSE IF k.res = Null THEN Ret(Null, node1, k.log)
        ELSE IF isAccessor(node) THEN Ret(Null, node1, k.log)
        ELSE LET wrap == isPlainIdentifierKey(computed, k.res)
                 key == IF wrap THEN literal(Str(k.res.name)) ELSE k.res
                 l1 == IF wrap THEN k.log \o <<Ev("literal", "")>> ELSE k.log
                 v == convert(node1.value)
                 node2 == [node1 EXCEPT !.value = v.node]
             IN  IF v.thrown THEN Throw(node2, l1 \o v.log)
                 ELSE IF v.res = Null THEN Ret(Null, node2, l1 \o v.log)
                 ELSE Ret(property(key, v.res, computed), node2,
                          l1 \o v.log \o <<Ev("property", "")>>)

(* lines 249-260: an absent argument is handed to the builder as it is *)
convertReturnStatement(node) ==
    IF has(node, "argument")
    THEN LET c == convertChildren(node, <<"argument">>, TRUE)
         IN  IF c.thrown \/ c.rejected THEN failed(c)
             ELSE built(c, "returnStatement", returnStatement(c.vals[1]))
    ELSE Ret(returnStatement(Null), node, <<Ev("returnStatement", "")>>)

(* lines 261-263 *)
convertThisExpression(node) ==
    Ret(thisExpression, node, <<Ev("thisExpression", "")>>)

(* lines 264-275 and 276-287 *)
convertUnaryExpression(node) ==
    LET c == convertChildren(node, <<"argument">>, TRUE)
    IN  IF c.thrown \/ c.rejected THEN failed(c)
        ELSE built(c, "unaryExpression",
                   unaryExpression(c.vals[1], node.operator, node.prefix))

convertUpdateExpression(node) ==
    LET c == convertChildren(node, <<"argument">>, TRUE)
    IN  IF c.thrown \/ c.rejected THEN failed(c)
        ELSE built(c, "updateExpression",
                   updateExpression(c.vals[1], node.operator, node.prefix))

(* lines 288-304: init stays undefined when the declarator has none *)
convertVariableDeclarator(node) ==
    LET c == convertChildren(node,
                 IF has(node, "init") THEN <<"id", "init">> ELSE <<"id">>,
                 TRUE)
    IN  IF c.thrown \/ c.rejected THEN failed(c)
        ELSE built(c, "variableDeclarator",
                   variableDeclarator(c.vals[1],
                       IF has(node, "init") THEN c.vals[2] ELSE Undefined))

(* lines 305-314 *)
convertVariableDeclaration(node) ==
    LET c == convertChildren(node, <<"declarations">>, TRUE)
    IN  IF c.thrown \/ c.rejected THEN failed(c)
        ELSE built(c, "vars", vars(c.vals[1], node.kind))

notElseIf(alternate) == FALSE

(* `alternate.consequent`, line 334 *)
isElseIf(alternate) == has(alternate, "consequent")

(* lines 333-361: the do-while over the alternate chain.  An alternate     *)
(* with a consequent is an else-if clause; any other is the else clause.   *)
convertAlternates(alternate, container, l) ==
    LET step ==
          IF isElseIf(alternate)
          THEN LET c == convertChildren(alternate, <<"test", "consequent">>,
                                        FALSE)
               IN  IF c.thrown THEN Throw(c.node, l \o c.log)
                   ELSE IF c.rejected THEN Ret(Null, c.node, l \o c.log)
                   ELSE Ret(appendChild(container,
                                elseIfStatement(c.vals[1], c.vals[2])),
                            c.node,
                            l \o c.log \o <<Ev("elseIfStatement", ""),
                                            Ev("appendChild", "")>>)
          ELSE LET c == convert(alternate)
               IN  IF c.thrown THEN Throw(c.node, l \o c.log)
                   ELSE IF c.res = Null THEN Ret(Null, c.node, l \o c.log)
                   ELSE Ret(appendChild(container, elseStatement(c.res)),
                            c.node,
                            l \o c.log \o <<Ev("elseStatement", ""),
                                            Ev("appendChild", "")>>)
    IN  IF step.thrown \/ step.res = Null THEN step
        ELSE IF has(step.node, "alternate")
        THEN LET a == convertAlternates(step.node.alternate, step.res,
                                        step.log)
             IN  [a EXCEPT !.node = [step.node EXCEPT !.alternate = a.node]]
        ELSE step

(* lines 315-364 *)
convertIfStatement(node) ==
    LET c == convertChildren(node, <<"test", "consequent">>, FALSE)
    IN  IF c.thrown \/ c.rejected THEN failed(c)
        ELSE LET ifNode == ifStatement(c.vals[1], c.vals[2])
                 l1 == c.log \o <<Ev("ifStatement", "")>>
             IN  IF ~has(c.node, "alternate") THEN Ret(ifNode, c.node, l1)
                 ELSE LET a == convertAlternates(c.node.alternate,
                                   appendChild(containerNode, ifNode),
                                   l1 \o <<Ev("containerNode", ""),
                                           Ev("appendChild", "")>>)
                      IN  [a EXCEPT
                             !.node = [c.node EXCEPT !.alternate = a.node]]

(* lines 365-386 *)
convertForStatement(node) ==
    LET c == convertChildren(node, <<"init", "test", "update", "body">>,
                             FALSE)
    IN  IF c.thrown \/ c.rejected THEN failed(c)
        ELSE built(c, "forStatement",
                   forStatement(c.vals[1], c.vals[2], c.vals[3], c.vals[4]))

(* lines 387-396 *)
convertWhileStatement(node) ==
    LET c == convertChildren(node, <<"test", "body">>, FALSE)
    IN  IF c.thrown \/ c.rejected THEN failed(c)
        ELSE built(c, "whileStatement",
                   whileStatement(c.vals[1], c.vals[2]))

convertDefaultAsIdentifier(node) ==
    Ret(identifier(node.type), node, <<Ev("identifier", node.type)>>)

(* lines 397-399: the default case *)
convertDefault(node) == Ret(Null, node, <<>>)

(* The kinds the switch of line 15 has a case for *)
SupportedKinds ==
    {"ArrayExpression", "AssignmentExpression", "BinaryExpression",
     "BlockStatement", "CallExpression", "ConditionalExpression",
     "ExpressionStatement", "FunctionDeclaration", "FunctionExpression",
     "Identifier", "Literal", "TaggedTemplateExpression", "TemplateLiteral",
     "LogicalExpression", "MemberExpression", "NewExpression", "Program",
     "ObjectExpression", "Property", "ReturnStatement", "ThisExpression",
     "UnaryExpression", "UpdateExpression", "VariableDeclarator",
     "VariableDeclaration", "IfStatement", "ForStatement", "WhileStatement"}

(* lines 15-399: the switch on node.type; any other kind is null *)
convertNode(node) ==
    CASE node.type = "ArrayExpression" -> convertArrayExpression(node)
      [] node.type = "AssignmentExpression" ->
            convertAssignmentExpression(node)
      [] node.type = "BinaryExpression" -> convertBinaryExpression(node)
      [] node.type = "BlockStatement" -> convertBlockStatement(node)
      [] node.type = "CallExpression" -> convertCallExpression(node)
      [] node.type = "ConditionalExpression" ->
            convertConditionalExpression(node)
      [] node.type = "ExpressionStatement" -> convertExpressionStatement(node)
      [] node.type \in {"FunctionDeclaration", "FunctionExpression"} ->
            convertFunction(node)
      [] node.type = "Identifier" -> convertIdentifier(node)
      [] node.type = "Literal" -> convertLiteral(node)
      [] node.type = "TaggedTemplateExpression" ->
            convertTaggedTemplateExpression(node)
      [] node.type = "TemplateLiteral" -> convertTemplateLiteral(node)
      [] node.type = "LogicalExpression" -> convertLogicalExpression(node)
      [] node.type = "MemberExpression" -> convertMemberExpression(node)
      [] node.type = "NewExpression" -> convertNewExpression(node)
      [] node.type = "Program" -> convertProgram(node)
      [] node.type = "ObjectExpression" -> convertObjectExpression(node)
      [] node.type = "Property" -> convertProperty(node)
      [] node.type = "ReturnStatement" -> convertReturnStatement(node)
      [] node.type = "ThisExpression" -> convertThisExpression(node)
      [] node.type = "UnaryExpression" -> convertUnaryExpression(node)
      [] node.type = "UpdateExpression" -> convertUpdateExpression(node)
      [] node.type = "VariableDeclarator" -> convertVariableDeclarator(node)
      [] node.type = "VariableDeclaration" ->
            convertVariableDeclaration(node)
      [] node.type = "IfStatement" -> convertIfStatement(node)
      [] node.type = "ForStatement" -> convertForStatement(node)
      [] node.type = "WhileStatement" -> convertWhileStatement(node)
      [] OTHER -> convertDefault(node)

(* lines 2-400: reading node.type of null or undefined is a TypeError *)
convert(node) ==
    LET r == IF node = Null \/ node = Undefined THEN Throw(node, <<>>)
             ELSE IF isArray(node) THEN convertArray(node, 1, <<>>)
             ELSE convertNode(node)
    IN  [r EXCEPT !.log = <<Ev("convert", node.type)>> \o @]

-----------------------------------------------------------------------------
(* Source trees, shaped as the parser shapes them (ESTree) *)

Id(name) == [type |-> "Identifier", name |-> name]

Lit(s) == [type |-> "Literal", value |-> Str(s)]

RegexLit(pattern, flags) ==
    [type |-> "Literal", value |-> Null,
     regex |-> [pattern |-> pattern, flags |-> flags]]

This == [type |-> "ThisExpression"]

Other(kind) == [type |-> kind]

Two(kind, operator, left, right) ==
    [type |-> kind, operator |-> operator, left |-> left, right |-> right]

Member(object, prop, computed) ==
    [type |-> "MemberExpression", object |-> object, property |-> prop,
     computed |-> computed]

ArrayLit(elements) == [type |-> "ArrayExpression", elements |-> elements]

Call(kind, callee, args) ==
    [type |-> kind, callee |-> callee, arguments |-> args]

Cond(test, consequent, alternate) ==
    [type |-> "ConditionalExpression", test |-> test,
     consequent |-> consequent, alternate |-> alternate]

ExprStmt(expression) ==
    [type |-> "ExpressionStatement", expression |-> expression]

Block(body) == [type |-> "BlockStatement", body |-> body]

Func(kind, id, params, body) ==
    [type |-> kind, id |-> id, params |-> params, body |-> body]

One(kind, operator, argument) ==
    [type |-> kind, operator |-> operator, prefix |-> TRUE,
     argument |-> argument]

Return(argument) == [type |-> "ReturnStatement", argument |-> argument]

Declarator(id, init) ==
    [type |-> "VariableDeclarator", id |-> id, init |-> init]

Declaration(kind, declarations) ==
    [type |-> "VariableDeclaration", kind |-> kind,
     declarations |-> declarations]

If(test, consequent, alternate) ==
    [type |-> "IfStatement", test |-> test, consequent |-> consequent,
     alternate |-> alternate]

For(init, test, update, body) ==
    [type |-> "ForStatement", init |-> init, test |-> test,
     update |-> update, body |-> body]

While(test, body) == [type |-> "WhileStatement", test |-> test, body |-> body]

Quasi(cooked) == [type |-> "TemplateElement", value |-> [cooked |-> cooked]]

Template(quasis, expressions) ==
    [type |-> "TemplateLiteral", quasis |-> quasis,
     expressions |-> expressions]

Tagged(tag, quasi) ==
    [type |-> "TaggedTemplateExpression", tag |-> tag, quasi |-> quasi]

Prop(kind, computed, key, value) ==
    [type |-> "Property", kind |-> kind, computed |-> computed, key |-> key,
     value |-> value]

Object(properties) ==
    [type |-> "ObjectExpression", properties |-> properties]

Program(body) == [type |-> "Program", body |-> body]

-----------------------------------------------------------------------------
(* The trees the calls are made on *)

MaxLen == 3

MaxChain == 2

Arrays(S, n) == {Arr(s) : s \in UNION {[1..k -> S] : k \in 0..n}}

a == Id("a")

b == Id("b")

(* A node of a kind the switch has no case for, with children of its own *)
bad == [type |-> "SequenceExpression", expressions |-> Arr(<<a, b>>)]

(* Every composite kind over the children C; an absent child (Null) only   *)
(* where the grammar allows one.                                            *)
Composites(C) ==
    LET opt == C \cup {Null}
        lists == Arrays(C, 1)
        bodies == {Block(Arr(<<>>)), bad}
    IN  {Two(k, "+", l, r) : k \in {"AssignmentExpression",
             "BinaryExpression", "LogicalExpression"}, l \in C, r \in C}
        \cup {Member(o, p, c) : o \in C, p \in C, c \in {FALSE}}
        \cup {ArrayLit(e) : e \in Arrays(opt, 2)}
        \cup {Call(k, c, x) : k \in {"CallExpression", "NewExpression"},
                              c \in C, x \in lists}
        \cup {Cond(t, c, x) : t \in C, c \in C, x \in C}
        \cup {ExprStmt(e) : e \in C}
        \cup {Block(x) : x \in lists}
        \cup {Func(k, i, p, x) : k \in {"FunctionDeclaration",
             "FunctionExpression"}, i \in opt, p \in lists, x \in bodies}
        \cup {One(k, "-", x) : k \in {"UnaryExpression", "UpdateExpression"},
                               x \in C}
        \cup {Return(x) : x \in opt}
        \cup {Declarator(i, x) : i \in C, x \in opt}
        \cup {Declaration("var", Arr(<<Declarator(a, x)>>)) : x \in opt}
        \cup {While(t, x) : t \in C, x \in bodies}
        \cup {For(i, t, u, x) : i \in opt, t \in opt, u \in opt,
                                x \in bodies}
        \cup {Template(Arr(<<Quasi("x")>>), x) : x \in lists}
        \cup {Tagged(t, Template(Arr(<<Quasi("x")>>), x)) :
                 t \in {Id("$nonstandard"), Id("html")}, x \in lists}
        \cup {Object(Arr(<<Prop("init", FALSE, a, x)>>)) : x \in C}
        \cup {Prop("init", c, k, x) : c \in BOOLEAN, k \in C, x \in C}
        \cup {If(t, ExprStmt(c), x) : t \in C, c \in C,
                 x \in {Null} \cup {ExprStmt(e) : e \in C}}
        \cup {Program(Arr(<<ExprStmt(x)>>)) : x \in C}
        \cup {Program(Arr(<<ExprStmt(x), ExprStmt(y)>>)) : x \in C, y \in C}

(* x one level down: each composite kind with x in one of its places and   *)
(* convertible nodes in the others.                                         *)
Around(x) ==
    {Two("AssignmentExpression", "=", x, a),
     Two("AssignmentExpression", "=", a, x),
     Two("BinaryExpression", "+", x, a), Two("BinaryExpression", "+", a, x),
     Two("LogicalExpression", "&&", x, a),
     Two("LogicalExpression", "&&", a, x),
     Member(x, a, FALSE), Member(a, x, TRUE),
     ArrayLit(Arr(<<x>>)), ArrayLit(Arr(<<a, x>>)), ArrayLit(Arr(<<x, a>>)),
     Call("CallExpression", x, Arr(<<>>)),
     Call("CallExpression", a, Arr(<<x>>)),
     Call("NewExpression", x, Arr(<<>>)),
     Call("NewExpression", a, Arr(<<x>>)),
     Cond(x, a, a), Cond(a, x, a), Cond(a, a, x),
     ExprStmt(x), Block(Arr(<<x>>)),
     Func("FunctionExpression", x, Arr(<<>>), Block(Arr(<<>>))),
     Func("FunctionExpression", Null, Arr(<<x>>), Block(Arr(<<>>))),
     Func("FunctionDeclaration", a, Arr(<<>>), x),
     One("UnaryExpression", "!", x), One("UpdateExpression", "++", x),
     Return(x), Declarator(x, Null), Declarator(a, x),
     Declaration("let", Arr(<<Declarator(a, x)>>)),
     While(x, Block(Arr(<<>>))), While(a, x),
     For(x, a, a, Block(Arr(<<>>))), For(a, x, a, Block(Arr(<<>>))),
     For(a, a, x, Block(Arr(<<>>))), For(a, a, a, x),
     Template(Arr(<<Quasi("x"), Quasi("y")>>), Arr(<<x>>)),
     Tagged(Id("$nonstandard"),
            Template(Arr(<<Quasi("x"), Quasi("y")>>), Arr(<<x>>))),
     Object(Arr(<<Prop("init", FALSE, a, x)>>)),
     Prop("init", TRUE, x, a), Prop("init", FALSE, a, x),
     If(x, ExprStmt(a), Null), If(a, ExprStmt(x), Null),
     If(a, ExprStmt(a), Block(Arr(<<ExprStmt(x)>>))),
     If(a, ExprStmt(a), If(x, ExprStmt(a), Null)),
     If(a, ExprStmt(a), If(a, ExprStmt(x), Null)),
     Program(Arr(<<ExprStmt(x)>>)), Program(Arr(<<ExprStmt(a), ExprStmt(x)>>))}

Leaves == {a, Lit("1"), This, RegexLit("ab+c", "gi"), bad,
           Other("ArrowFunctionExpression"), Other("SwitchStatement")}

Nested ==
    LET inner == Composites({a, bad})
    IN  Composites({a, Lit("1"), bad})
        \cup UNION {Around(x) : x \in inner}

(* Arrays of siblings, on their own and as the elements of an array literal *)
Siblings ==
    LET lists == Arrays({a, b, Lit("1"), bad, Null,
                         Two("BinaryExpression", "+", a, bad)}, MaxLen)
    IN  lists \cup {ArrayLit(x) : x \in lists}

(* if / else if / else chains of up to MaxChain else-if clauses *)
Clauses == {<<a, Block(Arr(<<ExprStmt(Id("x"))>>))>>,
            <<b, Block(Arr(<<ExprStmt(Id("y"))>>))>>,
            <<bad, Block(Arr(<<>>))>>,
            <<a, Block(Arr(<<ExprStmt(bad)>>))>>}

Elses == {Null, Block(Arr(<<ExprStmt(Id("z"))>>)), ExprStmt(Id("z")),
          ExprStmt(bad)}

RECURSIVE Chains(_)
Chains(n) ==
    IF n = 0 THEN {If(c[1], c[2], e) : c \in Clauses, e \in Elses}
    ELSE {If(c[1], c[2], x) : c \in Clauses, x \in Chains(n - 1)}

IfChains == UNION {Chains(n) : n \in 0..MaxChain}

(* Programs of up to MaxLen statements *)
Statements == {ExprStmt(a), ExprStmt(bad), Return(Null),
               If(a, ExprStmt(b), ExprStmt(a)),
               For(Null, Null, Null, Block(Arr(<<>>)))}

Programs == {Program(x) : x \in Arrays(Statements, MaxLen)}

(* Properties and object literals *)
Properties ==
    {Prop(k, c, key, v) : k \in {"init", "get", "set"}, c \in BOOLEAN,
                          key \in {a, Lit("a"), Lit("b"), bad},
                          v \in {Lit("1"), bad}}

Objects ==
    {Object(x) : x \in Arrays({Prop("init", FALSE, a, Lit("1")),
                               Prop("init", FALSE, Lit("b"), a),
                               Prop("get", FALSE, a, Lit("1")),
                               Prop("set", TRUE, b,
                                    Func("FunctionExpression", Null,
                                         Arr(<<>>), Block(Arr(<<>>)))),
                               Prop("init", FALSE, a, bad),
                               Prop("init", FALSE, a,
                                    ArrayLit(Arr(<<Null>>)))}, MaxLen)}

(* Template literals, plain and tagged *)
Templates ==
    LET plain == {Template(Arr([i \in 1..(Len(x.items) + 1) |-> Quasi("x")]),
                           x) : x \in Arrays({a, b, bad}, MaxLen)}
    IN  plain
        \cup {Tagged(t, q) : t \in {Id("$nonstandard"), Id("html"),
                 Member(a, Id("$nonstandard"), FALSE)}, q \in plain}

Inputs == Leaves \cup Nested \cup Siblings \cup IfChains \cup Programs
          \cup Properties \cup Objects \cup Templates

-----------------------------------------------------------------------------
(* The caller: one call of convertRawJavaScriptAst(ast, builder) *)

Init ==
    /\ src \in Inputs
    /\ ast = src
    /\ pc = "ready"
    /\ result = Null
    /\ thrown = FALSE
    /\ log = <<>>

(* lines 1-403: `return convert(ast)` *)
convertRawJavaScriptAst ==
    /\ pc = "ready"
    /\ LET c == convert(ast)
       IN  /\ ast' = c.node
           /\ result' = c.res
           /\ thrown' = c.thrown
           /\ log' = c.log
    /\ pc' = "done"
    /\ UNCHANGED src

Next == convertRawJavaScriptAst

Spec == Init /\ [][Next]_state

-----------------------------------------------------------------------------
(* What a call of convert on n comes to *)

converts(n) == LET c == convert(n) IN ~c.thrown /\ c.res # Null

rejects(n) == LET c == convert(n) IN ~c.thrown /\ c.res = Null

throws(n) == convert(n).thrown

(* Element i of s is the first whose conversion returns null *)
firstRejectAt(s, i) ==
    /\ rejects(s[i])
    /\ \A j \in 1..(i - 1) : converts(s[j])

RECURSIVE logsOf(_, _)
logsOf(s, i) == IF i = 0 THEN <<>> ELSE logsOf(s, i - 1) \o convert(s[i]).log

-----------------------------------------------------------------------------
(* C1: the elements of an array are converted left to right; when the      *)
(* conversion of element i returns null, the result is null, the log holds *)
(* the calls of elements 1..i and nothing of a later element, and the      *)
(* later elements are still the source nodes.                               *)
C1_ShortCircuit ==
    (pc = "done" /\ isArray(src)) =>
        LET s == src.items
        IN  /\ \A i \in 1..Len(s) : firstRejectAt(s, i) =>
                  /\ ~thrown
                  /\ result = Null
                  /\ log = <<Ev("convert", "<array>")>> \o logsOf(s, i)
                  /\ \A k \in (i + 1)..Len(s) : ast.items[k] = s[k]
            /\ (\A i \in 1..Len(s) : converts(s[i])) =>
                  /\ ~thrown
                  /\ result = Arr([i \in 1..Len(s) |-> convert(s[i]).res])
                  /\ log = <<Ev("convert", "<array>")>> \o logsOf(s, Len(s))

C1_Witness ==
    /\ pc = "done"
    /\ isArray(src)
    /\ Len(src.items) = 3
    /\ firstRejectAt(src.items, 2)
    /\ src.items[3] = b
    /\ result = Null

(* C3: a call leaves its input as it was *)
C3_InputUnchanged == pc = "done" => ast = src

(* C4: a call ends by returning IR or null, never in another error *)
C4_OnlyRejection == pc = "done" => ~thrown

(* C5: a node of a kind outside the supported set converts to null, with   *)
(* no builder call and no conversion of anything below it                   *)
C5_UnknownKindRejects ==
    (pc = "done" /\ ~isArray(src) /\ src.type \notin SupportedKinds) =>
        /\ ~thrown
        /\ result = Null
        /\ log = <<Ev("convert", src.type)>>
        /\ ast = src

C5_Witness ==
    /\ pc = "done"
    /\ src = bad
    /\ result = Null
    /\ log = <<Ev("convert", "SequenceExpression")>>

-----------------------------------------------------------------------------
(* The required children of a composite node, in the order the code        *)
(* converts them: the fields that hold a node or a list of nodes.  The four *)
(* parts of a for statement are all required.                               *)
CompositeKinds == SupportedKinds \ {"Identifier", "Literal", "ThisExpression"}

requiredChildren(n) ==
    LET opt(f) == IF has(n, f) THEN <<f>> ELSE <<>>
    IN  CASE n.type \in {"AssignmentExpression", "BinaryExpression",
                         "LogicalExpression"} -> <<"left", "right">>
          [] n.type = "ArrayExpression" -> <<"elements">>
          [] n.type \in {"CallExpression", "NewExpression"} ->
                <<"callee", "arguments">>
          [] n.type = "ConditionalExpression" ->
                <<"test", "consequent", "alternate">>
          [] n.type \in {"FunctionDeclaration", "FunctionExpression"} ->
                opt("id") \o <<"params", "body">>
          [] n.type = "TemplateLiteral" -> <<"expressions">>
          [] n.type = "TaggedTemplateExpression" -> <<"quasi">>
          [] n.type = "MemberExpression" -> <<"object", "property">>
          [] n.type = "ObjectExpression" -> <<"properties">>
          [] n.type = "Property" -> <<"key", "value">>
          [] n.type = "ReturnStatement" -> opt("argument")
          [] n.type \in {"UnaryExpression", "UpdateExpression"} ->
                <<"argument">>
          [] n.type = "VariableDeclarator" -> <<"id">> \o opt("init")
          [] n.type = "VariableDeclaration" -> <<"declarations">>
          [] n.type = "IfStatement" ->
                <<"test", "consequent">> \o opt("alternate")
          [] n.type = "ForStatement" -> <<"init", "test", "update", "body">>
          [] n.type = "WhileStatement" -> <<"test", "body">>
          [] n.type \in {"Program", "BlockStatement"} -> <<"body">>
          [] n.type = "ExpressionStatement" -> <<"expression">>
          [] OTHER -> <<>>

(* Child i of n is converted (no child before it ends the call by a throw) *)
(* and its conversion returns null.                                         *)
childRejects(n, i) ==
    LET fs == requiredChildren(n)
    IN  /\ rejects(n[fs[i]])
        /\ \A j \in 1..(i - 1) : ~throws(n[fs[j]])

(* C2: when the conversion of a required child of a composite node returns *)
(* null, the conversion of the node returns null.                           *)
C2_RejectionPropagates ==
    (pc = "done" /\ src.type \in CompositeKinds) =>
        \A i \in 1..Len(requiredChildren(src)) :
            childRejects(src, i) => (~thrown /\ result = Null)

-----------------------------------------------------------------------------
(* The clauses of an if statement: the statement and the if statements     *)
(* down its alternate chain; and the terminal else, Null when there is none *)
RECURSIVE clausesOf(_)
clausesOf(n) ==
    <<n>> \o (IF has(n, "alternate") /\ n.alternate.type = "IfStatement"
              THEN clausesOf(n.alternate) ELSE <<>>)

terminalElse(n) ==
    LET cs == clausesOf(n) IN cs[Len(cs)].alternate

chainConverts(n) ==
    /\ \A i \in 1..Len(clausesOf(n)) :
          /\ converts(clausesOf(n)[i].test)
          /\ converts(clausesOf(n)[i].consequent)
    /\ terminalElse(n) # Null => converts(terminalElse(n))

expectedChain(n) ==
    LET cs == clausesOf(n)
        e == terminalElse(n)
        clause(i) ==
            IF i = 1
            THEN ifStatement(convert(cs[i].test).res,
                             convert(cs[i].consequent).res)
            ELSE elseIfStatement(convert(cs[i].test).res,
                                 convert(cs[i].consequent).res)
    IN  IF Len(cs) = 1 /\ e = Null THEN clause(1)
        ELSE [ir |-> TRUE, type |-> "ContainerNode",
              body |-> [i \in 1..Len(cs) |-> clause(i)]
                       \o (IF e = Null THEN <<>>
                           ELSE <<elseStatement(convert(e).res)>>)]

(* C6: an if statement whose tests and bodies all convert yields, without  *)
(* an alternate, the if-node alone, and otherwise a container of the       *)
(* if-node, one else-if-node per else-if clause in source order, and the   *)
(* else-node of the terminal else when there is one.                        *)
C6_IfChain ==
    (pc = "done" /\ src.type = "IfStatement" /\ chainConverts(src)) =>
        (~thrown /\ result = expectedChain(src))

C6_Witness ==
    /\ pc = "done"
    /\ src = If(a, Block(Arr(<<ExprStmt(Id("x"))>>)),
                If(b, Block(Arr(<<ExprStmt(Id("y"))>>)),
                   Block(Arr(<<ExprStmt(Id("z"))>>))))
    /\ result.type = "ContainerNode"
    /\ Len(result.body) = 3
    /\ result.body[2] = elseIfStatement(identifier("b"),
                                        Arr(<<identifier("y")>>))
    /\ result.body[3].type = "Else"

-----------------------------------------------------------------------------
(* C7: a program of one statement converts to what that statement converts *)
(* to, with no container call; a program of two or more statements that    *)
(* all convert yields a container of the converted statements in order;    *)
(* when the conversion of a statement returns null, so does the program's. *)
C7_Program ==
    (pc = "done" /\ src.type = "Program") =>
        LET s == src.body.items
        IN  /\ Len(s) = 1 =>
                  /\ thrown = convert(s[1]).thrown
                  /\ result = convert(s[1]).res
                  /\ log = <<Ev("convert", "Program")>> \o convert(s[1]).log
            /\ (Len(s) >= 2 /\ \A i \in 1..Len(s) : converts(s[i])) =>
                  /\ ~thrown
                  /\ result = [ir |-> TRUE, type |-> "ContainerNode",
                               body |-> [i \in 1..Len(s) |->
                                            convert(s[i]).res]]
            /\ \A i \in 1..Len(s) : firstRejectAt(s, i) =>
                  (~thrown /\ result = Null)

C7_Witness ==
    /\ pc = "done"
    /\ src = Program(Arr(<<ExprStmt(a)>>))
    /\ result = identifier("a")

C7_WitnessContainer ==
    /\ pc = "done"
    /\ src.type = "Program"
    /\ Len(src.body.items) = 3
    /\ result.type = "ContainerNode"
    /\ Len(result.body) = 3

C7_WitnessReject ==
    /\ pc = "done"
    /\ src.type = "Program"
    /\ Len(src.body.items) = 3
    /\ firstRejectAt(src.body.items, 3)
    /\ result = Null

-----------------------------------------------------------------------------
(* C8: an object literal with a get or set property converts to null,     *)
(* wherever the property stands and whatever the other properties are,     *)
(* once the conversion gets to that property (the conversions of the       *)
(* properties up to it complete); a get or set property converts to null   *)
(* even when its key and value convert.                                     *)
C8_AccessorRejects ==
    /\ (pc = "done" /\ src.type = "ObjectExpression") =>
          LET s == src.properties.items
          IN  (\E i \in 1..Len(s) :
                  /\ s[i].kind \in {"get", "set"}
                  /\ \A j \in 1..i : ~throws(s[j]))
              => (~thrown /\ result = Null)
    /\ (pc = "done" /\ src.type = "Property"
          /\ src.kind \in {"get", "set"} /\ ~throws(src.key))
       => (~thrown /\ result = Null)

C8_Witness ==
    /\ pc = "done"
    /\ src = Object(Arr(<<Prop("init", FALSE, a, Lit("1")),
                          Prop("init", FALSE, Lit("b"), a),
                          Prop("set", TRUE, b,
                               Func("FunctionExpression", Null, Arr(<<>>),
                                    Block(Arr(<<>>))))>>))
    /\ result = Null

-----------------------------------------------------------------------------
(* C9: of a property that is no accessor and whose key and value convert,  *)
(* a non-computed identifier key n and a string key n both come out as the *)
(* literal n; a computed key comes out as its conversion; the computed     *)
(* flag comes out as the source's.                                          *)
C9_KeyNormalization ==
    (pc = "done" /\ src.type = "Property" /\ src.kind = "init"
       /\ converts(src.key) /\ converts(src.value)) =>
        /\ ~thrown
        /\ result.type = "Property"
        /\ result.computed = src.computed
        /\ (~src.computed /\ src.key.type = "Identifier") =>
              /\ result.key = literal(Str(src.key.name))
              /\ result.key =
                    convert([src EXCEPT !.key = Lit(src.key.name)]).res.key
        /\ (~src.computed /\ src.key.type = "Literal") =>
              result.key = literal(src.key.value)
        /\ src.computed => result.key = convert(src.key).res

C9_Witness ==
    /\ pc = "done"
    /\ src = Prop("init", FALSE, a, Lit("1"))
    /\ result.key = literal(Str("a"))
    /\ result.key = convert(Prop("init", FALSE, Lit("a"), Lit("1"))).res.key

-----------------------------------------------------------------------------
(* C10: a tagged template converts only when its tag is the identifier     *)
(* $nonstandard and its template converts, to that template's node with    *)
(* nonstandard set; with another tag, or when the conversion of an         *)
(* interpolated expression returns null, it converts to null; a plain      *)
(* template's node carries no nonstandard flag.                             *)
C10_TaggedTemplate ==
    /\ (pc = "done" /\ src.type = "TaggedTemplateExpression") =>
          LET tagged == src.tag.type = "Identifier"
                        /\ src.tag.name = "$nonstandard"
          IN  /\ (tagged /\ converts(src.quasi)) =>
                    /\ ~thrown
                    /\ result.type = "TemplateLiteral"
                    /\ result.nonstandard = TRUE
                    /\ result = put(convert(src.quasi).res,
                                    "nonstandard", TRUE)
              /\ ~tagged => (~thrown /\ result = Null)
              /\ (\E i \in 1..Len(src.quasi.expressions.items) :
                     firstRejectAt(src.quasi.expressions.items, i))
                 => (~thrown /\ result = Null)
              /\ (~thrown /\ result # Null) =>
                     (tagged /\ converts(src.quasi))
    /\ (pc = "done" /\ src.type = "TemplateLiteral" /\ result # Null) =>
          "nonstandard" \notin DOMAIN result

C10_Witness ==
    /\ pc = "done"
    /\ src = Tagged(Id("$nonstandard"),
                    Template(Arr(<<Quasi("x"), Quasi("x")>>), Arr(<<a>>)))
    /\ result = [ir |-> TRUE, type |-> "TemplateLiteral",
                 quasis |-> StrArr(<<"x", "x">>),
                 expressions |-> Arr(<<identifier("a")>>),
                 nonstandard |-> TRUE]

====
